---- MODULE Spec2Model ----
(***************************************************************************)
(* Model of the tutoring chat application: the conversation orchestrator   *)
(* of src/App.tsx (component App) together with the text, image and       *)
(* speech collaborators of the gemini service (src/unnamed/part_000).      *)
(*                                                                         *)
(* React state is modelled in two layers.  chatState / inputText hold the  *)
(* committed state (what the queued setState updaters have produced).      *)
(* view holds the values captured by the closures of the last render: an   *)
(* event handler reads `chatState.x` and `inputText` from view, while a    *)
(* functional updater `setChatState(prev => ...)` reads the committed      *)
(* state.  Render copies the committed state into view.                    *)
(*                                                                         *)
(* A handler may be called again on the closure it was just called on;    *)
(* every other step is rendered before the next one runs (Next).           *)
(* SpecFlushed is the behaviour in which every step is rendered at once.   *)
(*                                                                         *)
(* The playback controller of one MessageBubble                            *)
(* (src/components/MessageBubble.tsx) is modelled the same way (audioState *)
(* and audioView), with its refs, its started sources and its suspended    *)
(* invocations (SpecAudio, SpecAudioFlushed).  decodePCM and base64ToBytes *)
(* are operators, applied to bounded base64 payloads in SpecPCM.  SpecLive *)
(* runs App and one bubble with fair collaborators.                        *)
(*                                                                         *)
(* Not modelled: Message.timestamp and visualStyle (no handler reads them  *)
(* back), the speech input, and the contents of the prompt sent to the     *)
(* API.                                                                    *)
(*                                                                         *)
(* Optional fields of a Message (sources?, imageUrl?, imageError?,         *)
(* isError?) are modelled as sets: {} when absent, {v} when present.       *)
(* Strings that the code inspects (inputText) are sequences of characters; *)
(* the text of a message is such a sequence too.                           *)
(***************************************************************************)
EXTENDS Integers, Sequences, FiniteSets, Bags, TLC

(* ---------------------------------------------------------------- bounds *)

\* Largest value the millisecond clock (Date.now()) takes in the model.
MaxClock == 1

\* Longest message list explored: a send is accepted only while the list
\* has room for its user message and for the reply of every text request
\* in flight.
MaxMessages == 5

\* Largest number of handleSendMessage invocations suspended at an await.
MaxPending == 2

(* ------------------------------------------------------------ input sets *)

\* Subject (types.ts): the enumeration is configuration only, one member
\* is explored.
Subjects == {"Physics"}

\* selectedSubject: Subject | null
NoSubject == "null"

\* Values typed into the input box: a whitespace-only one and a prompt with
\* trailing whitespace (the box starts, and is reset to, empty).
Inputs == { <<" ">>, <<"g", " ">> }

\* Image data URI returned by generateEducationalImage on success.
ImageUri == "data:image/png;base64,AAAA"

\* Raw answers of ai.models.generateContent for the text request:
\* response.text and candidates[0].groundingMetadata.groundingChunks.
RawResponses ==
    { [text |-> <<>>, groundingChunks |-> {}],
      [text |-> <<"r">>,
       groundingChunks |-> { << [web |-> {[title |-> "", uri |-> "u1"]}],
                                [web |-> {}],
                                [web |-> {[title |-> "T", uri |-> "u2"]}] >> }] }

(* ------------------------------------------------------------- variables *)

VARIABLES
    chatState,    \* committed ChatState: messages, isLoading, selectedSubject
    inputText,    \* committed value of the input box
    view,         \* chatState and inputText as captured by the last render
    now,          \* Date.now()
    calls,        \* bag of the handleSendMessage invocations suspended at an await
    lastOp        \* "send" when the last step was a call of handleSendMessage

chatVars == <<chatState, inputText, view, now, calls, lastOp>>

\* One MessageBubble (a model message that is not an error message).
VARIABLES
    audioState,       \* committed useState value: "idle", "loading" or "playing"
    audioView,        \* audioState as captured by the last render of the bubble
    mounted,          \* the bubble has not been unmounted
    audioContext,     \* audioContextRef: "none" (null) or the state of the context
    contextsCreated,  \* number of AudioContext objects constructed
    sourceNodeRef,    \* sourceNodeRef.current: 0 (null) or a source
    sources,          \* the started sources that have not ended: id -> "playing" | "stopped"
    audioBuffer,      \* audioBufferRef.current: {} (null) or {buffer}
    audioCalls,       \* bag of the handlePlayAudio invocations suspended at an await
    lastAudio         \* the last step of the bubble: its kind, the speech
                      \* response it received, whether it raised the alert

audioVars == <<audioState, audioView, mounted, audioContext, contextsCreated,
               sourceNodeRef, sources, audioBuffer, audioCalls, lastAudio>>

\* One call of decodePCM.
VARIABLES
    pcmInput,         \* the base64 string handed to decodePCM
    pcmResult         \* {} before the call, then {its outcome}

pcmVars == <<pcmInput, pcmResult>>

vars == <<chatVars, audioVars, pcmVars>>

(* ------------------------------------------------------ pure definitions *)

IsWhitespace(c) == c = " "

RECURSIVE TrimStart(_)
TrimStart(s) ==
    IF s = <<>> THEN <<>>
    ELSE IF IsWhitespace(Head(s)) THEN TrimStart(Tail(s)) ELSE s

RECURSIVE TrimEnd(_)
TrimEnd(s) ==
    IF s = <<>> THEN <<>>
    ELSE IF IsWhitespace(s[Len(s)]) THEN TrimEnd(SubSeq(s, 1, Len(s) - 1)) ELSE s

\* String.prototype.trim
Trim(s) == TrimEnd(TrimStart(s))

\* Number.prototype.toString on a clock reading
IdOf(n) == ToString(n)

WelcomeId == "welcome"

GreetingText(subject) ==
    <<"Assalam-o-Alaikum! I am your ", subject, " tutor. ...">>

ApologyText ==
    <<"Sorry, mere internet mein kuch masla aa gaya hai. Please dubara try karein. (Network error, please retry).">>

FallbackText == <<"Sorry, I couldn't generate an answer. Please try again.">>

\* A Message as the handlers create it: the optional fields absent.
NewMessage(id, role, text) ==
    [id |-> id, role |-> role, text |-> text,
     sources |-> {}, imageUrl |-> {}, imageError |-> {}, isError |-> {}]

\* chatState.messages.map(m => ({ role: m.role, text: m.text }))
HistoryOf(messages) ==
    [i \in 1..Len(messages) |-> [role |-> messages[i].role, text |-> messages[i].text]]

\* groundingChunks.forEach(chunk => if (chunk.web) sources.push(...))
RECURSIVE ExtractSources(_)
ExtractSources(chunks) ==
    IF chunks = <<>> THEN <<>>
    ELSE LET chunk == Head(chunks)
             rest == ExtractSources(Tail(chunks))
         IN IF chunk.web = {} THEN rest
            ELSE LET web == CHOOSE w \in chunk.web : TRUE
                 IN << [title |-> IF web.title = "" THEN "Reference Link" ELSE web.title,
                        uri |-> web.uri] >> \o rest

\* Mutant of ResponseText: the `|| fallback` is missing.
ResponseTextNoFallback(raw) == raw.text

\* response.text || "Sorry, I couldn't generate an answer. Please try again."
ResponseText(raw) == IF raw.text = <<>> THEN FallbackText ELSE raw.text

\* The value generateTutorResponse resolves with for a raw API answer.
generateTutorResponse(raw) ==
    [text |-> ResponseText(raw),
     sources |-> IF raw.groundingChunks = {} THEN <<>>
                 ELSE ExtractSources(CHOOSE c \in raw.groundingChunks : TRUE)]

\* The updater of the image merge: prev.messages.map(msg => ...)
PatchImage(messages, botMessageId, imageResult) ==
    [i \in 1..Len(messages) |->
        IF messages[i].id = botMessageId
        THEN IF imageResult # {}
             THEN [messages[i] EXCEPT !.imageUrl = imageResult]
             ELSE [messages[i] EXCEPT !.imageError = {TRUE}]
        ELSE messages[i]]

\* Mutant of SendRejected: the prompt is tested without trim().
SendRejectedNoTrim(v) ==
    \/ v.inputText = <<>>
    \/ v.chatState.isLoading
    \/ v.chatState.selectedSubject = NoSubject

\* The guard of handleSendMessage, on the values its closure captured.
SendRejected(v) ==
    \/ Trim(v.inputText) = <<>>
    \/ v.chatState.isLoading
    \/ v.chatState.selectedSubject = NoSubject

\* The three follow-up prompts of getSuggestions.
Suggestions ==
    << "Can you explain this further?", "Give me another example.", "Explain this in Urdu." >>

\* getSuggestions, on the chatState of the render that calls it.
getSuggestions(cs) ==
    IF cs.isLoading THEN <<>>
    ELSE IF cs.messages = <<>> THEN <<>>
    ELSE LET lastMsg == cs.messages[Len(cs.messages)]
         IN IF lastMsg.role # "model" \/ lastMsg.isError # {} THEN <<>>
            ELSE IF lastMsg.id = WelcomeId THEN <<>>
            ELSE Suggestions

\* The suspended invocations awaiting generateTutorResponse / the image.
TextCalls == { c \in BagToSet(calls) : c.pc = "text" }
ImageCalls == { c \in BagToSet(calls) : c.pc = "image" }

RECURSIVE SumCopies(_)
SumCopies(S) ==
    IF S = {} THEN 0
    ELSE LET c == CHOOSE x \in S : TRUE
         IN CopiesIn(c, calls) + SumCopies(S \ {c})

TextRequestsInFlight == SumCopies(TextCalls)
ImageRequestsInFlight == SumCopies(ImageCalls)

\* The committed state as a render captures it.
Snapshot == [chatState |-> chatState, inputText |-> inputText]

(* ------------------------------------------------------------------ Init *)

(* ---------------------------------------------------- the PCM decoder *)

\* Longest base64 payload handed to decodePCM.
MaxB64Chars == 6

\* The base64 alphabet of atob, in the order of the digit values 0..63.
B64Table ==
    << "A","B","C","D","E","F","G","H","I","J","K","L","M","N","O","P",
       "Q","R","S","T","U","V","W","X","Y","Z","a","b","c","d","e","f",
       "g","h","i","j","k","l","m","n","o","p","q","r","s","t","u","v",
       "w","x","y","z","0","1","2","3","4","5","6","7","8","9","+","/" >>

B64Value(ch) == (CHOOSE i \in 1..Len(B64Table) : B64Table[i] = ch) - 1

IsB64Char(ch) == \E i \in 1..Len(B64Table) : B64Table[i] = ch

\* The characters the payloads are drawn from: digits 0, 8, 55, 63 and the
\* padding character.
PayloadChars == {"A", "I", "3", "/", "="}

RECURSIVE SeqsUpTo(_, _)
SeqsUpTo(S, n) ==
    IF n = 0 THEN { <<>> }
    ELSE LET shorter == SeqsUpTo(S, n - 1)
         IN shorter \cup { Append(q, x) : q \in { r \in shorter : Len(r) = n - 1 }, x \in S }

Payloads == SeqsUpTo(PayloadChars, MaxB64Chars)

\* A thrown exception, as the value of the call that raised it.
Thrown(name) ==
    [error |-> name, bytes |-> <<>>, numberOfChannels |-> 0, sampleRate |-> 0,
     channelData |-> <<>>]

\* atob removes one or two trailing "=" when the length is a multiple of 4.
StripPadding(data) ==
    LET n == Len(data)
    IN IF n > 0 /\ n % 4 = 0 /\ data[n] = "="
       THEN IF data[n - 1] = "=" THEN SubSeq(data, 1, n - 2) ELSE SubSeq(data, 1, n - 1)
       ELSE data

\* Groups of four digits give three bytes; a rest of three digits gives two
\* bytes and a rest of two digits one byte, the surplus low bits dropped.
RECURSIVE DecodeDigits(_)
DecodeDigits(v) ==
    IF Len(v) < 2 THEN <<>>
    ELSE LET b0 == v[1] * 4 + (v[2] \div 16)
         IN IF Len(v) = 2 THEN << b0 >>
            ELSE LET b1 == (v[2] % 16) * 16 + (v[3] \div 4)
                 IN IF Len(v) = 3 THEN << b0, b1 >>
                    ELSE << b0, b1, (v[3] % 4) * 64 + v[4] >>
                           \o DecodeDigits(SubSeq(v, 5, Len(v)))

\* window.atob: the char codes of the binary string, or InvalidCharacterError.
atob(data) ==
    LET stripped == StripPadding(data)
    IN IF Len(stripped) % 4 = 1 \/ \E i \in 1..Len(stripped) : ~IsB64Char(stripped[i])
       THEN Thrown("InvalidCharacterError")
       ELSE [Thrown("none") EXCEPT
               !.bytes = DecodeDigits([i \in 1..Len(stripped) |-> B64Value(stripped[i])])]

\* base64ToBytes: bytes[i] = binaryString.charCodeAt(i).
base64ToBytes(base64) == atob(base64)

sampleRate == 24000
numChannels == 1
FullScale == 32768

\* Mutant of ToInt16: the 16-bit pattern read as an unsigned integer.
ToUint16(u) == u

\* The value of a 16-bit pattern as an Int16Array element.
ToInt16(u) == IF u >= 32768 THEN u - 65536 ELSE u

\* new Int16Array(bytes.buffer): element i is the little-endian 16-bit
\* integer of bytes 2i and 2i+1 (typed arrays use the platform byte order,
\* little-endian on every platform that runs a browser).
Int16Array(bytes) ==
    [i \in 1..(Len(bytes) \div 2) |-> ToInt16(bytes[2 * i - 1] + 256 * bytes[2 * i])]

\* decodePCM: the AudioBuffer (samples as exact fractions num/den, which
\* float32 represents without rounding), or the exception it raises:
\* Int16Array rejects a buffer whose byte length is not a multiple of 2,
\* createBuffer rejects a length of 0 frames.
decodePCM(base64Data) ==
    LET decoded == base64ToBytes(base64Data)
        bytes == decoded.bytes
    IN IF decoded.error # "none" THEN decoded
       ELSE IF Len(bytes) % 2 # 0 THEN Thrown("RangeError")
       ELSE LET int16Data == Int16Array(bytes)
                frameCount == Len(int16Data) \div numChannels
            IN IF frameCount = 0 THEN Thrown("NotSupportedError")
               ELSE [error |-> "none", bytes |-> <<>>,
                     numberOfChannels |-> numChannels, sampleRate |-> sampleRate,
                     channelData |->
                        [i \in 1..frameCount |->
                            [num |-> int16Data[(i - 1) * numChannels + 1],
                             den |-> FullScale]]]

InitChat ==
    /\ chatState = [messages |-> <<>>, isLoading |-> FALSE, selectedSubject |-> NoSubject]
    /\ inputText = <<>>
    /\ view = Snapshot
    /\ now = 0
    /\ calls = EmptyBag
    /\ lastOp = "init"

\* useState('idle') and the three useRef(null) of MessageBubble.
InitAudio ==
    /\ audioState = "idle"
    /\ audioView = "idle"
    /\ mounted = TRUE
    /\ audioContext = "none"
    /\ contextsCreated = 0
    /\ sourceNodeRef = 0
    /\ sources = << >>
    /\ audioBuffer = {}
    /\ audioCalls = EmptyBag
    /\ lastAudio = [op |-> "init", response |-> {}, alert |-> FALSE]

\* No call of decodePCM is under way.
NoPCM ==
    /\ pcmInput = <<>>
    /\ pcmResult = {}

Init == InitChat /\ InitAudio /\ NoPCM

\* Steps of App leave the bubble and the decoder alone, and so on.
OnlyChat == UNCHANGED <<audioVars, pcmVars>>
OnlyAudio == UNCHANGED <<chatVars, pcmVars>>
OnlyPCM == UNCHANGED <<chatVars, audioVars>>

(* --------------------------------------------------------------- actions *)

\* React commits the updates queued by the step and re-renders App: the
\* handlers are re-created over the new state.
Flush == view' = Snapshot'

\* A render on its own, after a step that left the closures behind.
Render ==
    /\ view # Snapshot
    /\ UNCHANGED <<chatState, inputText, now, calls>>
    /\ lastOp' = "other"
    /\ Flush

\* The millisecond clock advances.
Tick ==
    /\ now < MaxClock
    /\ now' = now + 1
    /\ lastOp' = "other"
    /\ UNCHANGED <<chatState, inputText, view, calls>>

\* onChange of the input box (also speech transcript, suggestion click).
setInputText(s) ==
    /\ inputText # s
    /\ inputText' = s
    /\ lastOp' = "other"
    /\ UNCHANGED <<chatState, now, calls>>

handleSubjectSelect(subject) ==
    /\ chatState' = [messages |-> << NewMessage(WelcomeId, "model", GreetingText(subject)) >>,
                     isLoading |-> FALSE,
                     selectedSubject |-> subject]
    /\ lastOp' = "other"
    /\ UNCHANGED <<inputText, now, calls>>

handleBackToHome ==
    /\ chatState' = [messages |-> <<>>, isLoading |-> FALSE, selectedSubject |-> NoSubject]
    /\ lastOp' = "other"
    /\ UNCHANGED <<inputText, now, calls>>

\* confirmed: the answer of window.confirm
handleClearChat(confirmed) ==
    /\ lastOp' = "other"
    /\ IF view.chatState.selectedSubject = NoSubject \/ ~confirmed
       THEN UNCHANGED chatState
       ELSE chatState' =
              [chatState EXCEPT
                 !.messages = << NewMessage(IdOf(now), "model",
                                            GreetingText(chatState.selectedSubject)) >>,
                 !.isLoading = FALSE]
    /\ UNCHANGED <<inputText, now, calls>>

\* handleSendMessage up to its first await: the guard, the user message,
\* the history and the text request.
handleSendMessage ==
    /\ lastOp' = "send"
    /\ IF SendRejected(view)
       THEN UNCHANGED <<chatState, inputText, calls>>
       ELSE /\ BagCardinality(calls) < MaxPending
            /\ Len(chatState.messages) + TextRequestsInFlight + 2 <= MaxMessages
            /\ LET userMessage == NewMessage(IdOf(now), "user", view.inputText)
               IN /\ chatState' = [chatState EXCEPT
                                     !.messages = Append(chatState.messages, userMessage),
                                     !.isLoading = TRUE]
                  /\ inputText' = <<>>
                  /\ calls' = calls (+) SetToBag({
                                [pc |-> "text",
                                 prompt |-> userMessage.text,
                                 history |-> HistoryOf(view.chatState.messages),
                                 subject |-> view.chatState.selectedSubject] })
    /\ UNCHANGED now

\* Mutant of TextResolved: the reply is appended and the image request is
\* issued, but isLoading is not reset.
TextResolvedKeepsLoading(c, raw) ==
    /\ c \in BagToSet(calls)
    /\ c.pc = "text"
    /\ LET response == generateTutorResponse(raw)
           botMessageId == IdOf(now + 1)
           botMessage == [NewMessage(botMessageId, "model", response.text)
                            EXCEPT !.sources = {response.sources}]
       IN /\ chatState' = [chatState EXCEPT
                             !.messages = Append(chatState.messages, botMessage)]
          /\ calls' = (calls (-) SetToBag({c}))
                         (+) SetToBag({[pc |-> "image", botMessageId |-> botMessageId]})
    /\ lastOp' = "other"
    /\ UNCHANGED <<inputText, now>>

\* The text request of the suspended call c resolves with the raw answer:
\* the reply is appended and the image request is issued.
TextResolved(c, raw) ==
    /\ c \in BagToSet(calls)
    /\ c.pc = "text"
    /\ LET response == generateTutorResponse(raw)
           botMessageId == IdOf(now + 1)
           botMessage == [NewMessage(botMessageId, "model", response.text)
                            EXCEPT !.sources = {response.sources}]
       IN /\ chatState' = [chatState EXCEPT
                             !.messages = Append(chatState.messages, botMessage),
                             !.isLoading = FALSE]
          /\ calls' = (calls (-) SetToBag({c}))
                         (+) SetToBag({[pc |-> "image", botMessageId |-> botMessageId]})
    /\ lastOp' = "other"
    /\ UNCHANGED <<inputText, now>>

\* Mutant of TextFailed: the error message is appended, but the invocation
\* goes on to the image step instead of ending.
TextFailedThenImage(c) ==
    /\ c \in BagToSet(calls)
    /\ c.pc = "text"
    /\ LET errorMessage == [NewMessage(IdOf(now + 1), "model", ApologyText)
                              EXCEPT !.isError = {TRUE}]
       IN chatState' = [chatState EXCEPT
                          !.messages = Append(chatState.messages, errorMessage),
                          !.isLoading = FALSE]
    /\ calls' = (calls (-) SetToBag({c}))
                   (+) SetToBag({[pc |-> "image", botMessageId |-> IdOf(now + 1)]})
    /\ lastOp' = "other"
    /\ UNCHANGED <<inputText, now>>

\* The text request of the suspended call c fails: generateTutorResponse
\* throws and the catch block runs; the invocation ends.
TextFailed(c) ==
    /\ c \in BagToSet(calls)
    /\ c.pc = "text"
    /\ LET errorMessage == [NewMessage(IdOf(now + 1), "model", ApologyText)
                              EXCEPT !.isError = {TRUE}]
       IN chatState' = [chatState EXCEPT
                          !.messages = Append(chatState.messages, errorMessage),
                          !.isLoading = FALSE]
    /\ calls' = calls (-) SetToBag({c})
    /\ lastOp' = "other"
    /\ UNCHANGED <<inputText, now>>

\* The image request of the suspended call c resolves with imageResult
\* ({} for null); the invocation ends.
ImageResolved(c, imageResult) ==
    /\ c \in BagToSet(calls)
    /\ c.pc = "image"
    /\ chatState' = [chatState EXCEPT
                       !.messages = PatchImage(chatState.messages, c.botMessageId, imageResult)]
    /\ calls' = calls (-) SetToBag({c})
    /\ lastOp' = "other"
    /\ UNCHANGED <<inputText, now>>

(* -------------------------------------------------------- specifications *)

\* Every step but a call of handleSendMessage is followed by its render
\* before anything else runs; handleSendMessage can be called again on the
\* closure that its previous call ran on.
Next ==
    \/ Render /\ OnlyChat
    \/ Tick /\ OnlyChat
    \/ handleSendMessage /\ UNCHANGED view /\ OnlyChat
    \/ (\E s \in Inputs : setInputText(s)) /\ Flush /\ OnlyChat
    \/ (\E subject \in Subjects : handleSubjectSelect(subject)) /\ Flush /\ OnlyChat
    \/ handleBackToHome /\ Flush /\ OnlyChat
    \/ (\E confirmed \in BOOLEAN : handleClearChat(confirmed)) /\ Flush /\ OnlyChat
    \/ (\E c \in BagToSet(calls), raw \in RawResponses : TextResolved(c, raw)) /\ Flush /\ OnlyChat
    \/ (\E c \in BagToSet(calls) : TextFailed(c)) /\ Flush /\ OnlyChat
    \/ (\E c \in BagToSet(calls), imageResult \in {{}, {ImageUri}} : ImageResolved(c, imageResult)) /\ Flush /\ OnlyChat

Spec == Init /\ [][Next]_vars

\* Every step is followed by its render: no handler ever runs on a closure
\* that is behind the committed state.
NextFlushed ==
    \/ Tick /\ OnlyChat
    \/ handleSendMessage /\ Flush /\ OnlyChat
    \/ (\E s \in Inputs : setInputText(s)) /\ Flush /\ OnlyChat
    \/ (\E subject \in Subjects : handleSubjectSelect(subject)) /\ Flush /\ OnlyChat
    \/ handleBackToHome /\ Flush /\ OnlyChat
    \/ (\E confirmed \in BOOLEAN : handleClearChat(confirmed)) /\ Flush /\ OnlyChat
    \/ (\E c \in BagToSet(calls), raw \in RawResponses : TextResolved(c, raw)) /\ Flush /\ OnlyChat
    \/ (\E c \in BagToSet(calls) : TextFailed(c)) /\ Flush /\ OnlyChat
    \/ (\E c \in BagToSet(calls), imageResult \in {{}, {ImageUri}} : ImageResolved(c, imageResult)) /\ Flush /\ OnlyChat

SpecFlushed == Init /\ [][NextFlushed]_vars

(* ------------------------------------------- the playback controller *)

\* Most sources the bubble has started and not seen end, counting the ones
\* its suspended invocations can still start.
MaxSources == 3

\* What the speech API can put into part.inlineData.data: nothing, a
\* payload of one 16-bit sample, a payload of a single byte.
SpeechResponses == { {}, { <<"A", "I", "A">> }, { <<"/", "/">> } }

\* generateSpeechFromText: the payload if there is one and it is truthy,
\* else null ({}); API errors are caught and give null as well.
generateSpeechFromText(response) ==
    IF response = {} \/ response = { <<>> } THEN {} ELSE response

\* setAudioState: a state update of an unmounted component is dropped.
setAudioState(v) == audioState' = IF mounted THEN v ELSE audioState

\* The step is of kind op, receives no speech response and alerts nothing.
Did(op) == lastAudio' = [op |-> op, response |-> {}, alert |-> FALSE]

SpeechRequestsInFlight == CopiesIn([pc |-> "speech"], audioCalls)

ActiveSources == { id \in DOMAIN sources : sources[id] = "playing" }

\* source.stop() on sourceNodeRef.current, if there is one.
StopCurrent ==
    sources' = [id \in DOMAIN sources |->
                   IF id = sourceNodeRef THEN "stopped" ELSE sources[id]]

\* Lines 65-76: a fresh source is created from the buffer, started and
\* stored in sourceNodeRef; the state becomes playing.
StartSource ==
    LET source == CHOOSE id \in 1..(Cardinality(DOMAIN sources) + 1) :
                      id \notin DOMAIN sources
    IN /\ sources' = [id \in DOMAIN sources \cup {source} |->
                         IF id = source THEN "playing" ELSE sources[id]]
       /\ sourceNodeRef' = source
       /\ setAudioState("playing")

\* Lines 49-76 up to the next await, the other suspended invocations being
\* rest: with a cached buffer the source is started at once, without one
\* the speech request is issued.
EnterLoading(rest) ==
    IF audioBuffer = {}
    THEN /\ setAudioState("loading")
         /\ audioCalls' = rest (+) SetToBag({[pc |-> "speech"]})
         /\ UNCHANGED <<sourceNodeRef, sources>>
    ELSE /\ StartSource
         /\ audioCalls' = rest

\* A press of the play button, which the last render left enabled.
handlePlayAudio ==
    /\ mounted
    /\ audioView # "loading"
    /\ IF audioView = "playing"
       THEN /\ StopCurrent
            /\ setAudioState("idle")
            /\ Did("stop")
            /\ UNCHANGED <<audioContext, contextsCreated, sourceNodeRef,
                           audioBuffer, audioCalls>>
       ELSE /\ Cardinality(DOMAIN sources) + BagCardinality(audioCalls) < MaxSources
            /\ IF audioContext = "none"
               THEN /\ audioContext' \in {"suspended", "running"}
                    /\ contextsCreated' = contextsCreated + 1
               ELSE UNCHANGED <<audioContext, contextsCreated>>
            /\ IF audioContext' = "suspended"
               THEN /\ audioCalls' = audioCalls (+) SetToBag({[pc |-> "resume"]})
                    /\ UNCHANGED <<audioState, sourceNodeRef, sources>>
               ELSE EnterLoading(audioCalls)
            /\ Did("toggle")
            /\ UNCHANGED audioBuffer
    /\ UNCHANGED mounted

\* ctx.resume() of a suspended invocation resolves.
ResumeResolved ==
    /\ [pc |-> "resume"] \in BagToSet(audioCalls)
    /\ audioContext \in {"suspended", "running"}
    /\ audioContext' = "running"
    /\ EnterLoading(audioCalls (-) SetToBag({[pc |-> "resume"]}))
    /\ Did("other")
    /\ UNCHANGED <<mounted, contextsCreated, audioBuffer>>

\* ctx.resume() is rejected because the context was closed: the await is
\* outside the try block and the invocation ends there.
ResumeRejected ==
    /\ [pc |-> "resume"] \in BagToSet(audioCalls)
    /\ audioContext = "closed"
    /\ audioCalls' = audioCalls (-) SetToBag({[pc |-> "resume"]})
    /\ Did("other")
    /\ UNCHANGED <<audioState, mounted, audioContext, contextsCreated,
                   sourceNodeRef, sources, audioBuffer>>

\* Mutant of SpeechResolved: a failure is reported, but the state is left
\* at loading.
SpeechResolvedStaysLoading(response) ==
    /\ [pc |-> "speech"] \in BagToSet(audioCalls)
    /\ audioCalls' = audioCalls (-) SetToBag({[pc |-> "speech"]})
    /\ LET base64Audio == generateSpeechFromText(response)
           decoded == { decodePCM(b) : b \in base64Audio }
       IN IF base64Audio = {} \/ \E buffer \in decoded : buffer.error # "none"
          THEN /\ lastAudio' = [op |-> "speech", response |-> response, alert |-> TRUE]
               /\ UNCHANGED <<audioState, sourceNodeRef, sources, audioBuffer>>
          ELSE /\ audioBuffer' = decoded
               /\ StartSource
               /\ lastAudio' = [op |-> "speech", response |-> response, alert |-> FALSE]
    /\ UNCHANGED <<mounted, audioContext, contextsCreated>>

\* generateSpeechFromText of a suspended invocation resolves (lines 56-82).
SpeechResolved(response) ==
    /\ [pc |-> "speech"] \in BagToSet(audioCalls)
    /\ audioCalls' = audioCalls (-) SetToBag({[pc |-> "speech"]})
    /\ LET base64Audio == generateSpeechFromText(response)
           decoded == { decodePCM(b) : b \in base64Audio }
       IN IF base64Audio = {} \/ \E buffer \in decoded : buffer.error # "none"
          THEN /\ setAudioState("idle")
               /\ lastAudio' = [op |-> "speech", response |-> response, alert |-> TRUE]
               /\ UNCHANGED <<sourceNodeRef, sources, audioBuffer>>
          ELSE /\ audioBuffer' = decoded
               /\ StartSource
               /\ lastAudio' = [op |-> "speech", response |-> response, alert |-> FALSE]
    /\ UNCHANGED <<mounted, audioContext, contextsCreated>>

\* The ended event of source id is delivered: after stop(), or when a
\* playing source reaches the end of its buffer on a running context.
onended(id) ==
    /\ id \in DOMAIN sources
    /\ sources[id] = "playing" => audioContext = "running"
    /\ sources' = [i \in DOMAIN sources \ {id} |-> sources[i]]
    /\ setAudioState("idle")
    /\ sourceNodeRef' = 0
    /\ Did("other")
    /\ UNCHANGED <<mounted, audioContext, contextsCreated, audioBuffer, audioCalls>>

\* The bubble is unmounted: the cleanup of the effect runs.
Unmount ==
    /\ mounted
    /\ mounted' = FALSE
    /\ StopCurrent
    /\ audioContext' = IF audioContext = "none" THEN "none" ELSE "closed"
    /\ Did("other")
    /\ UNCHANGED <<audioState, contextsCreated, sourceNodeRef, audioBuffer, audioCalls>>

\* The bubble re-renders with the committed audioState.
AudioFlush == audioView' = IF mounted' THEN audioState' ELSE audioView

RenderAudio ==
    /\ mounted
    /\ audioView # audioState
    /\ UNCHANGED <<audioState, mounted, audioContext, contextsCreated,
                   sourceNodeRef, sources, audioBuffer, audioCalls>>
    /\ Did("other")
    /\ AudioFlush

\* handlePlayAudio may run again before the bubble has re-rendered.
NextAudio ==
    \/ handlePlayAudio /\ UNCHANGED audioView /\ OnlyAudio
    \/ RenderAudio /\ OnlyAudio
    \/ ResumeResolved /\ AudioFlush /\ OnlyAudio
    \/ ResumeRejected /\ AudioFlush /\ OnlyAudio
    \/ (\E response \in SpeechResponses : SpeechResolved(response)) /\ AudioFlush /\ OnlyAudio
    \/ (\E id \in 1..MaxSources : onended(id)) /\ AudioFlush /\ OnlyAudio
    \/ Unmount /\ AudioFlush /\ OnlyAudio

SpecAudio == Init /\ [][NextAudio]_vars

\* The bubble re-renders after every step.
NextAudioFlushed ==
    \/ handlePlayAudio /\ AudioFlush /\ OnlyAudio
    \/ ResumeResolved /\ AudioFlush /\ OnlyAudio
    \/ ResumeRejected /\ AudioFlush /\ OnlyAudio
    \/ (\E response \in SpeechResponses : SpeechResolved(response)) /\ AudioFlush /\ OnlyAudio
    \/ (\E id \in 1..MaxSources : onended(id)) /\ AudioFlush /\ OnlyAudio
    \/ Unmount /\ AudioFlush /\ OnlyAudio

SpecAudioFlushed == Init /\ [][NextAudioFlushed]_vars

TypeOKAudio ==
    /\ audioState \in {"idle", "loading", "playing"}
    /\ audioView \in {"idle", "loading", "playing"}
    /\ audioContext \in {"none", "suspended", "running", "closed"}
    /\ sourceNodeRef \in DOMAIN sources \cup {0}
    /\ Cardinality(DOMAIN sources) + BagCardinality(audioCalls) <= MaxSources

(* ------------------------------- App and one bubble, with fair collaborators *)

\* Capacities of the conversation and of the bubble in the fair
\* specification: a send or a press needs room within them.
MaxLiveMessages == 3
MaxLivePending == 1
MaxLiveSources == 1

\* The step is not an accepted send beyond the live capacities.
LiveSend ==
    chatState'.isLoading /\ ~chatState.isLoading
        => /\ Len(chatState'.messages) + TextRequestsInFlight' <= MaxLiveMessages
           /\ BagCardinality(calls') <= MaxLivePending

\* The step is not a press that can start a source beyond the live capacity.
LivePress ==
    lastAudio'.op = "toggle"
        => Cardinality(DOMAIN sources') + BagCardinality(audioCalls') <= MaxLiveSources

NextLive ==
    \/ NextFlushed /\ LiveSend
    \/ NextAudioFlushed /\ LivePress

\* Every collaborator call that is in flight eventually resolves.
TextSettles ==
    \/ (\E c \in BagToSet(calls), raw \in RawResponses : TextResolved(c, raw)) /\ Flush /\ OnlyChat
    \/ (\E c \in BagToSet(calls) : TextFailed(c)) /\ Flush /\ OnlyChat

ImageSettles ==
    (\E c \in BagToSet(calls), imageResult \in {{}, {ImageUri}} : ImageResolved(c, imageResult))
        /\ Flush /\ OnlyChat

SpeechSettles ==
    (\E response \in SpeechResponses : SpeechResolved(response)) /\ AudioFlush /\ OnlyAudio

ResumeSettles ==
    \/ ResumeResolved /\ AudioFlush /\ OnlyAudio
    \/ ResumeRejected /\ AudioFlush /\ OnlyAudio

SpecLive ==
    /\ Init
    /\ [][NextLive]_vars
    /\ WF_vars(TextSettles)
    /\ WF_vars(ImageSettles)
    /\ WF_vars(SpeechSettles)
    /\ WF_vars(ResumeSettles)

(* ------------------------------------------- the decoder on its inputs *)

InitPCM == InitChat /\ InitAudio /\ pcmInput \in Payloads /\ pcmResult = {}

\* One call decodePCM(pcmInput).
Decode ==
    /\ pcmResult = {}
    /\ pcmResult' = { decodePCM(pcmInput) }
    /\ UNCHANGED pcmInput

NextPCM == Decode /\ OnlyPCM

SpecPCM == InitPCM /\ [][NextPCM]_vars

TypeOK ==
    /\ chatState.isLoading \in BOOLEAN
    /\ chatState.selectedSubject \in Subjects \cup {NoSubject}
    /\ now \in 0..MaxClock
    /\ Len(chatState.messages) + TextRequestsInFlight <= MaxMessages
    /\ BagCardinality(calls) <= MaxPending


(* ------------------------------------------------- vocabulary of claims *)

Last(s) == s[Len(s)]

\* m2 is m with exactly one message added at the end.
AppendsOne(m, m2) == Len(m2) = Len(m) + 1 /\ SubSeq(m2, 1, Len(m)) = m

\* The positions at which two lists of equal length differ.
Changed(m, m2) == { i \in 1..Len(m) : m2[i] # m[i] }

HasImageField(msg) == msg.imageUrl # {} \/ msg.imageError # {}

\* A reply appended by a successful text request: a model message that
\* carries sources and is not an error message.
IsReply(msg) == msg.role = "model" /\ msg.isError = {} /\ msg.sources # {}

Blank(s) == Trim(s) = <<>>

(* ---------------------------------------------------------------- claims *)

\* C1: an accepted send (non-blank prompt, subject selected, isLoading false
\* as the handler sees them) appends exactly one user message carrying the
\* prompt and issues one text request; when that request succeeds exactly
\* one model message with the returned, non-empty text is appended after it
\* and isLoading is false.
C1_SendThenReply ==
    [][ /\ ( /\ lastOp' = "send"
             /\ ~Blank(view.inputText)
             /\ view.chatState.selectedSubject # NoSubject
             /\ ~view.chatState.isLoading )
           => /\ AppendsOne(chatState.messages, chatState'.messages)
              /\ Last(chatState'.messages).role = "user"
              /\ Last(chatState'.messages).text = view.inputText
              /\ TextRequestsInFlight' = TextRequestsInFlight + 1
        /\ \A c \in TextCalls, raw \in RawResponses :
             TextResolved(c, raw)
               => /\ AppendsOne(chatState.messages, chatState'.messages)
                  /\ Last(chatState'.messages).role = "model"
                  /\ Last(chatState'.messages).isError = {}
                  /\ Last(chatState'.messages).text = generateTutorResponse(raw).text
                  /\ Last(chatState'.messages).text # <<>>
                  /\ ~chatState'.isLoading
      ]_vars

\* C1 witness: the prompt's user message directly followed by a reply,
\* nothing loading.
C1_Witness ==
    /\ Len(chatState.messages) >= 2
    /\ chatState.messages[Len(chatState.messages) - 1].role = "user"
    /\ chatState.messages[Len(chatState.messages) - 1].text = <<"g", " ">>
    /\ IsReply(Last(chatState.messages))
    /\ Last(chatState.messages).text = <<"r">>
    /\ ~chatState.isLoading

\* C2: when the text request of an accepted send fails, exactly one model
\* message with isError = true and the apology text is appended, isLoading
\* becomes false, the invocation ends and no image request is issued.
C2_TextFailure ==
    [][ \A c \in TextCalls :
          TextFailed(c)
            => /\ AppendsOne(chatState.messages, chatState'.messages)
               /\ Last(chatState'.messages).role = "model"
               /\ Last(chatState'.messages).isError = {TRUE}
               /\ Last(chatState'.messages).text = ApologyText
               /\ ~chatState'.isLoading
               /\ ImageRequestsInFlight' = ImageRequestsInFlight
               /\ BagCardinality(calls') = BagCardinality(calls) - 1
      ]_vars

\* C2 witness: the error message is the last message, nothing in flight.
C2_Witness ==
    /\ chatState.messages # <<>>
    /\ Last(chatState.messages).isError = {TRUE}
    /\ Last(chatState.messages).text = ApologyText
    /\ ~chatState.isLoading
    /\ calls = EmptyBag

\* C3 (as claimed): when the image request of a reply resolves with null,
\* every message found by the reply's id ends with imageError = true and no
\* imageUrl, and no other message (one that is not a reply, or a second
\* message) receives an image field from that resolution.
C3_NullImagePatchesOnlyReply ==
    [][ \A c \in ImageCalls :
          ImageResolved(c, {})
            => /\ \A i \in 1..Len(chatState'.messages) :
                    chatState'.messages[i].id = c.botMessageId
                      => /\ chatState'.messages[i].imageError = {TRUE}
                         /\ chatState'.messages[i].imageUrl = {}
               /\ Cardinality(Changed(chatState.messages, chatState'.messages)) <= 1
               /\ \A i \in Changed(chatState.messages, chatState'.messages) :
                    IsReply(chatState.messages[i])
      ]_vars

\* C4 (as claimed): at no point are two text requests in flight.
C4_OneTextRequest == TextRequestsInFlight <= 1

\* C5 (as claimed): a call of send() while isLoading is true changes nothing
\* and issues no request, also when the handler has not yet observed the
\* state update of the previous send().
C5_SendWhileLoadingNoOp ==
    [][ (lastOp' = "send" /\ chatState.isLoading)
          => UNCHANGED <<chatState, inputText, calls>> ]_vars

\* C6: a call of send() with an empty or whitespace-only prompt, or with no
\* subject selected, leaves the message list, isLoading and selectedSubject
\* unchanged and issues no collaborator request.
C6_BlankOrNoSubjectNoOp ==
    [][ ( /\ lastOp' = "send"
          /\ \/ Blank(view.inputText)
             \/ view.chatState.selectedSubject = NoSubject
             \/ chatState.selectedSubject = NoSubject )
          => UNCHANGED <<chatState, inputText, calls>> ]_vars

\* C6 witness: send() has just been called with a whitespace-only prompt
\* under a selected subject with nothing loading.
C6_Witness ==
    /\ lastOp = "send"
    /\ view.inputText = <<" ">>
    /\ chatState.selectedSubject \in Subjects
    /\ ~chatState.isLoading
    /\ calls = EmptyBag
    /\ Len(chatState.messages) = 1

\* C7 (as claimed): the ids of the messages in the list are pairwise distinct.
C7_DistinctIds ==
    \A i, j \in 1..Len(chatState.messages) :
        i # j => chatState.messages[i].id # chatState.messages[j].id

\* C8 (as claimed): no message has both imageUrl and imageError, and only a
\* reply whose image step has resolved carries either of them.
C8_ImageFieldsExclusive ==
    \A i \in 1..Len(chatState.messages) :
        LET msg == chatState.messages[i]
        IN /\ ~(msg.imageUrl # {} /\ msg.imageError # {})
           /\ HasImageField(msg) => IsReply(msg)

\* C9 (as claimed): an image merge keeps the length and order of the list,
\* changes at most the one message whose id is the reply's id, and leaves
\* isLoading and selectedSubject unchanged.
C9_MergePatchesOneInPlace ==
    [][ \A c \in ImageCalls, imageResult \in {{}, {ImageUri}} :
          ImageResolved(c, imageResult)
            => /\ Len(chatState'.messages) = Len(chatState.messages)
               /\ \A i \in 1..Len(chatState.messages) :
                    /\ chatState'.messages[i].id = chatState.messages[i].id
                    /\ chatState.messages[i].id # c.botMessageId
                         => chatState'.messages[i] = chatState.messages[i]
               /\ Cardinality(Changed(chatState.messages, chatState'.messages)) <= 1
               /\ chatState'.isLoading = chatState.isLoading
               /\ chatState'.selectedSubject = chatState.selectedSubject
      ]_vars

\* C10 (as claimed): a text request that resolves after the conversation was
\* reset or destroyed (isLoading is false again although the request is
\* still in flight) leaves the message list, isLoading and selectedSubject
\* unchanged.
C10_LateResolutionIgnored ==
    [][ \A c \in TextCalls :
          ( /\ ~chatState.isLoading
            /\ \/ TextFailed(c)
               \/ \E raw \in RawResponses : TextResolved(c, raw) )
            => UNCHANGED chatState ]_vars

\* A greeting, as handleSubjectSelect and handleClearChat create it.
IsGreeting(msg) ==
    msg.role = "model" /\ \E subject \in Subjects \cup {NoSubject} : msg.text = GreetingText(subject)

HasId(messages, id) == \E i \in 1..Len(messages) : messages[i].id = id

\* C15 (as claimed): the suggestion list is the three follow-up prompts
\* exactly when isLoading is false and the last message is a model message
\* that is neither an error message nor a greeting, and is empty otherwise.
C15_SuggestionsOnlyAfterReply ==
    LET cs == view.chatState
    IN /\ getSuggestions(cs) \in {<<>>, Suggestions}
       /\ getSuggestions(cs) = Suggestions
            <=> /\ ~cs.isLoading
                /\ cs.messages # <<>>
                /\ Last(cs.messages).role = "model"
                /\ Last(cs.messages).isError = {}
                /\ ~IsGreeting(Last(cs.messages))

C18_HistoryIsPriorConversation ==
    [][ TextRequestsInFlight' > TextRequestsInFlight
          => \E c \in BagToSet(calls') :
                /\ c.pc = "text"
                /\ CopiesIn(c, calls') = CopiesIn(c, calls) + 1
                /\ c.history = HistoryOf(chatState.messages)
                /\ c.prompt = Last(chatState'.messages).text
                /\ c.subject = chatState.selectedSubject
      ]_vars

\* C13 (as claimed): for a payload whose decoded byte length is odd,
\* decodePCM raises no error and returns floor(byteLength / 2) frames.
C13_OddLengthTruncates ==
    \A r \in pcmResult :
        LET decoded == base64ToBytes(pcmInput)
        IN (decoded.error = "none" /\ Len(decoded.bytes) % 2 = 1)
             => /\ r.error = "none"
                /\ Len(r.channelData) = Len(decoded.bytes) \div 2

\* Frame i (from 0) of the bytes, as the claim words it: the signed 16-bit
\* little-endian integer of bytes 2i and 2i+1, over 32768.
FramesAsClaimed(r, bytes) ==
    /\ r.error = "none"
    /\ r.numberOfChannels = 1
    /\ Len(r.channelData) = Len(bytes) \div 2
    /\ \A i \in 0..(Len(bytes) \div 2 - 1) :
          LET u == bytes[2 * i + 1] + 256 * bytes[2 * i + 2]
              signed == IF u > 32767 THEN u - 65536 ELSE u
              sample == r.channelData[i + 1]
          IN /\ sample = [num |-> signed, den |-> 32768]
             /\ sample.num \in -32768..32767
             /\ -sample.den <= sample.num /\ sample.num < sample.den

\* C14 (as claimed): for every byte sequence of even length 2N, decodePCM
\* yields N frames on one channel, frame i being the signed little-endian
\* 16-bit integer of bytes 2i, 2i+1 over 32768, a sample in [-1, 1).
C14_EvenLengthDecodes ==
    \A r \in pcmResult :
        LET decoded == base64ToBytes(pcmInput)
        IN (decoded.error = "none" /\ Len(decoded.bytes) % 2 = 0)
             => FramesAsClaimed(r, decoded.bytes)

\* C14 (amended): the same for every non-empty byte sequence of even
\* length; for the empty sequence decodePCM raises an error.
C14_NonEmptyEvenLengthDecodes ==
    \A r \in pcmResult :
        LET decoded == base64ToBytes(pcmInput)
        IN /\ (decoded.error = "none" /\ Len(decoded.bytes) % 2 = 0
                 /\ decoded.bytes # <<>>)
               => FramesAsClaimed(r, decoded.bytes)
           /\ (decoded.error = "none" /\ decoded.bytes = <<>>) => r.error # "none"

\* C14 witness: four bytes decoded to two frames, the first of them the
\* most negative sample -32768/32768 and the second a negative one too.
C14_Witness ==
    \E r \in pcmResult :
        /\ r.error = "none"
        /\ Len(r.channelData) = 2
        /\ r.channelData[1].num = -32768
        /\ r.channelData[2].num < 0

\* C11 (as claimed): two presses of the play button in succession, both
\* seeing the idle state, issue the speech request once and construct one
\* audio context: never two speech requests in flight, never two contexts.
C11_DoubleToggleOnce ==
    /\ contextsCreated <= 1
    /\ SpeechRequestsInFlight <= 1

\* C12 (as claimed): at most one playback source of the message is active
\* (started, not stopped, not ended) at any time.
C12_OneActiveSource == Cardinality(ActiveSources) <= 1

\* The speech response makes the toggle fail: null, or a payload that
\* decodePCM rejects.
SpeechFails(response) ==
    \/ generateSpeechFromText(response) = {}
    \/ \E b \in generateSpeechFromText(response) : decodePCM(b).error # "none"

\* C17: a speech resolution that returns null or an undecodable payload
\* sets the state of the mounted bubble to idle, raises the alert, starts
\* no source and caches no buffer; a press that finds no cached buffer and
\* a running context issues a speech request; with a cached buffer no step
\* issues a speech request.
C17_FailureReturnsToIdle ==
    [][ /\ (lastAudio'.op = "speech" /\ SpeechFails(lastAudio'.response))
             => /\ mounted => audioState' = "idle"
                /\ lastAudio'.alert
                /\ sources' = sources
                /\ sourceNodeRef' = sourceNodeRef
                /\ audioBuffer' = audioBuffer
        /\ (lastAudio'.op = "speech" /\ ~SpeechFails(lastAudio'.response))
             => /\ ~lastAudio'.alert
                /\ audioBuffer' = { decodePCM(b) : b \in lastAudio'.response }
        /\ (lastAudio'.op = "toggle" /\ audioBuffer = {} /\ audioContext' = "running")
             => SpeechRequestsInFlight' = SpeechRequestsInFlight + 1
        /\ audioBuffer # {}
             => /\ SpeechRequestsInFlight' <= SpeechRequestsInFlight
                /\ audioBuffer' = audioBuffer
      ]_vars

\* C17 witness: the speech request of a press has failed: the alert was
\* raised, the bubble is idle with no source and no cached buffer.
C17_Witness ==
    /\ lastAudio.op = "speech"
    /\ lastAudio.alert
    /\ SpeechFails(lastAudio.response)
    /\ audioState = "idle"
    /\ sources = << >>
    /\ audioBuffer = {}
    /\ mounted

\* C20 (as claimed): once the bubble is unmounted no playback source of it
\* is active and its audio context, if one was constructed, is closed.
C20_TornDownSilent ==
    ~mounted => /\ ActiveSources = {}
                /\ audioContext \in {"none", "closed"}

\* C19: with every collaborator call eventually resolving, isLoading =
\* true is always followed by isLoading = false, and the loading state of
\* a mounted bubble is always followed by playing or idle (or by its
\* unmounting, after which the bubble has no playback state).
C19_NoPermanentLoading ==
    /\ chatState.isLoading ~> ~chatState.isLoading
    /\ (mounted /\ audioState = "loading")
          ~> (~mounted \/ audioState \in {"playing", "idle"})

\* C19 witness: a text request and a speech request are in flight, App and
\* the bubble both loading.
C19_Witness ==
    /\ chatState.isLoading
    /\ TextRequestsInFlight > 0
    /\ mounted
    /\ audioState = "loading"
    /\ SpeechRequestsInFlight > 0

====
